---- MODULE Spec2Model ----
(***************************************************************************)
(* Model of the tab / session lifecycle of the pt terminal (src/main.rs):  *)
(* the Term window, its gtk::Notebook of vte::Terminal pages, the          *)
(* page_meta map, and the handlers connected in Term::add_events,          *)
(* Term::add_actions, Term::new_terminal and Term::add_new_tab.            *)
(*                                                                         *)
(* All handlers run on the single GTK main loop, so every handler is one   *)
(* atomic action.  Strings are sequences of one-character strings, so      *)
(* that formatting (page_label) is computed and can be parsed back.        *)
(* Option<T> is a sequence of length 0 (None) or 1 (Some).                 *)
(*                                                                         *)
(* The toolkit is the environment.  VTE runs the spawn callback of a       *)
(* terminal once and delivers child-exited at most once per terminal; the  *)
(* handlers themselves do not rely on any order between the two, so the    *)
(* model delivers them in any order, also for a terminal whose page is     *)
(* already gone.  User input (new tab, key press, tab click) reaches the   *)
(* window only until close() was called.                                   *)
(***************************************************************************)
EXTENDS Integers, Sequences, FiniteSets, TLC

\* ------------------------------------------------------------- bounds
\* Number of vte::Terminal objects ever built by new_terminal.
MaxTerms == 3

\* ------------------------------------------------------------- values
None == << >>
Some(x) == << x >>
IsSome(o) == Len(o) = 1
Unwrap(o) == o[1]

Terms == 1 .. MaxTerms
\* The process id the OS gives the child of terminal t: live processes
\* have distinct ids, and 0 is the smallest id that counts as a success.
ChildPid(t) == t - 1
\* What the spawn callback of terminal t may be given: an error (with pid
\* -1, or with a pid), no error and pid -1, no error and the process id.
SpawnResults(t) ==
    { [error |-> TRUE, pid |-> -1], [error |-> TRUE, pid |-> ChildPid(t)],
      [error |-> FALSE, pid |-> -1], [error |-> FALSE, pid |-> ChildPid(t)] }
\* to_digit(10) yields 0..9
Radix == 10
DigitValues == 0 .. (Radix - 1)
\* Key presses delivered to the window: without Alt, Alt with a key that is
\* no digit, Alt with a digit (0, every tab number, and numbers past it).
KeyEvents ==
    { [alt |-> FALSE, c |-> None], [alt |-> FALSE, c |-> Some(1)], [alt |-> TRUE, c |-> None] }
    \cup { [alt |-> TRUE, c |-> Some(d)] : d \in { x \in DigitValues : x <= MaxTerms + 1 } }

\* Window titles a child process may report.
Titles == { <<"v", "i">>, <<"s", "h">> }

\* The environment snapshot taken by Env::default().
Envs == { [user |-> <<"u">>, host |-> <<"h">>, cur_dir |-> <<"/", "t">>] }

\* Inputs of page_label taken on its own: page numbers 0..MaxPageNumber,
\* environments with long and with empty fields, titles that are empty,
\* hold a dot, or are long.
MaxPageNumber == 12
LabelEnvs ==
    { [user |-> <<"a", "l", "i", "c", "e">>, host |-> <<"h">>,
       cur_dir |-> <<"/", "t", "m", "p">>],
      [user |-> << >>, host |-> <<"h", ".", "x">>, cur_dir |-> << >>] }
LabelTitles ==
    { <<"v", "i", "m">>, << >>, <<"a", ".", " ", "b">>,
      <<"m", "a", "k", "e", " ", "-", "j", "8", " ", "a", "l", "l", " ", "2", ">", "l", "o", "g">> }

DigitChars == <<"0", "1", "2", "3", "4", "5", "6", "7", "8", "9">>

VARIABLES
    env,          \* TermImpl.env
    notebook,     \* TermImpl.notebook: the pages (terminals) in display order
    tab_label,    \* text of the gtk::Label of each page of the notebook
    cur_page,     \* notebook.page(): index of the current page, -1 if none
    show_tabs,    \* notebook "show-tabs" property
    page_meta,    \* TermImpl.page_meta: terminal -> Meta { pid }
    win_title,    \* title of the ApplicationWindow (set_title)
    closes,       \* number of calls of self.close()
    created,      \* number of terminals built so far
    wtitle,       \* vte::Terminal::window_title() of each page of the notebook
    spawn_pending,\* terminals whose spawn_async callback has not run yet
    exited,       \* terminals whose child-exited signal was delivered
    spawn_dir,    \* working_dir given to the most recent spawn_async call
    call          \* a page_label call on its own: its arguments and result

vars == << env, notebook, tab_label, cur_page, show_tabs, page_meta, win_title,
           closes, created, wtitle, spawn_pending, exited, spawn_dir, call >>

\* ------------------------------------------------------------- helpers
Range(s) == { s[i] : i \in 1 .. Len(s) }

\* notebook.page_num(child): 1-based position in s, 0 when absent.
IndexOf(s, x) == IF x \in Range(s) THEN CHOOSE i \in 1 .. Len(s) : s[i] = x ELSE 0

\* (variant: the first page removed whatever the index)
RemoveAt_head(s, i) == Tail(s)
\* notebook.remove_page(Some(i - 1))
RemoveAt(s, i) == SubSeq(s, 1, i - 1) \o SubSeq(s, i + 1, Len(s))

\* format!("{}", n) for an unsigned number
RECURSIVE DecStr(_)
DecStr(n) == IF n < Radix THEN << DigitChars[n + 1] >>
             ELSE DecStr(n \div Radix) \o << DigitChars[(n % Radix) + 1] >>

\* format!("{}@{}:{}", env.user, env.host, env.cur_dir)
DefaultTitle(e) == e.user \o <<"@">> \o e.host \o <<":">> \o e.cur_dir

\* (variant: the blank after the dot left out)
page_label_no_blank(e, page_number, title) ==
    LET t == IF IsSome(title) THEN Unwrap(title) ELSE DefaultTitle(e)
    IN  DecStr(page_number) \o <<".">> \o t
\* Term::page_label: the text of the label
page_label(e, page_number, title) ==
    LET t == IF IsSome(title) THEN Unwrap(title) ELSE DefaultTitle(e)
    IN  DecStr(page_number) \o <<".", " ">> \o t

\* ------------------------------------------------ gtk::Notebook calls
\* (variant: the switch refused, as for a page that is not shown yet)
SetCurrentPage_refused(n, cur, arg) == cur
\* notebook.set_current_page(arg) on a notebook of n pages whose current
\* page is cur: None is passed to GTK as -1 (the last page), an index past
\* the end is ignored.
SetCurrentPage(n, cur, arg) ==
    IF n = 0 THEN cur
    ELSE IF ~IsSome(arg) THEN n - 1
    ELSE IF Unwrap(arg) < n THEN Unwrap(arg)
    ELSE cur

\* notebook.remove_page of the 1-based position i out of n pages, the
\* current page being cur (0-based): the possible new current pages.  When
\* the current page itself goes, GTK moves to a neighbouring page.
AfterRemovePage(n, cur, i) ==
    IF cur = i - 1
    THEN IF n = 1 THEN { -1 }
         ELSE { c \in { i - 2, i - 1 } : (c = i - 2 /\ i > 1) \/ (c = i - 1 /\ i < n) }
    ELSE IF cur > i - 1 THEN { cur - 1 }
    ELSE { cur }

\* ------------------------------------------------ pieces of the handlers
\* connect_switch_page handler: the window title after the notebook
\* switched to terminal t.
switch_page(wt, t, title) == IF IsSome(wt[t]) THEN wt[t] ELSE title

\* (variant: the first page taken for the active one)
active_terminal_first ==
    IF Len(notebook) = 0 THEN None ELSE Some(notebook[1])
\* Term::active_terminal
active_terminal ==
    IF cur_page < 0 THEN None
    ELSE IF cur_page + 1 \in 1 .. Len(notebook) THEN Some(notebook[cur_page + 1])
    ELSE None

\* The target of /proc/<pid>/cwd, when it can be read.
ProcCwd(pid) == [cwd_of |-> pid]

\* Term::get_terminal_cwd; readable says whether read_link succeeds.
get_terminal_cwd(terminal, readable) ==
    IF terminal \in DOMAIN page_meta /\ IsSome(page_meta[terminal].pid)
    THEN IF readable THEN Some(ProcCwd(Unwrap(page_meta[terminal].pid))) ELSE None
    ELSE None

\* new_terminal: curdir.as_ref().map(|path| path.to_str()).flatten();
\* utf8 says whether the path has a UTF-8 form (Path::to_str is Some).
WorkingDir(curdir, utf8) == IF IsSome(curdir) /\ utf8 THEN curdir ELSE None

\* add_new_tab: let page_number = notebook.n_pages() + 1
NewPageNumber(n) == n + 1

\* (variant: the relabel loop numbering from the next index)
RelabelNumber_next(page) == page + 1
\* remove_tab: the number given to a page after the removed one, whose
\* index in the children snapshot taken before the removal is page.
RelabelNumber(page) == page

\* (variant: the 0-based page number put in the label)
TitleLabelNumber_zero_based(num) == num
\* window-title handler: page_label(num + 1, ...)
TitleLabelNumber(num) == num + 1

\* (variant: the strip shown from two pages on only)
ShowTabs_gt2(n) == n > 2
\* notebook.set_show_tabs(notebook.n_pages() > 1)
ShowTabs(n) == n > 1

\* (variant: a page count that is never reached)
ShouldClose_negative(n) == n < 0
\* (variant: closing when at most one page is left)
ShouldClose_le1(n) == n <= 1
\* if notebook.n_pages() == 0 { self.close() }
ShouldClose(n) == n = 0

\* (variant: the Meta of a removed terminal left in the map)
MetaRemove_keep(pm, terminal) == pm
\* term.page_meta.borrow_mut().remove(terminal)
MetaRemove(pm, terminal) == [t \in (DOMAIN pm) \ {terminal} |-> pm[t]]

\* (variant: every Meta of the map made anew on an insert)
MetaInsert_reset(pm, terminal) ==
    [t \in (DOMAIN pm) \cup {terminal} |-> [pid |-> None]]
\* term.page_meta.borrow_mut().insert(terminal, Meta::default())
MetaInsert(pm, terminal) ==
    [t \in (DOMAIN pm) \cup {terminal} |->
        IF t = terminal THEN [pid |-> None] ELSE pm[t]]

\* (variant: the Meta made when there is none, as with entry().or_default())
MetaSetPid_insert(pm, terminal, pid) ==
    [t \in (DOMAIN pm) \cup {terminal} |->
        IF t = terminal THEN [pid |-> Some(pid)] ELSE pm[t]]
\* spawn callback: if let Some(meta) = page_meta.get_mut(&terminal)
\* { meta.pid = Some(pid.0 as u32) }; pid.0 >= 0 here, so the cast keeps it
MetaSetPid(pm, terminal, pid) ==
    IF terminal \in DOMAIN pm
    THEN [pm EXCEPT ![terminal].pid = Some(pid)]
    ELSE pm

\* (variant: only the error is looked at)
SpawnFailed_error_only(error, pid) == error
\* spawn callback: did the spawn fail?
SpawnFailed(error, pid) == error \/ pid < 0

\* u32::checked_sub
CheckedSub(a, b) == IF a >= b THEN Some(a - b) ELSE None

\* key-press-event handler: set_tab
KeySetTab(alt, c) == IF alt THEN c ELSE None

\* window-title handler: the labels and the window title it leaves, for
\* a terminal whose window_title() is new_title
title_labels(terminal, new_title) ==
    LET num == IndexOf(notebook, terminal) - 1
    IN  IF num >= 0
        THEN [tab_label EXCEPT ![terminal] =
                 page_label(env, TitleLabelNumber(num), Some(new_title))]
        ELSE tab_label
title_window(terminal, new_title) ==
    IF IndexOf(notebook, terminal) - 1 >= 0 THEN Some(new_title) ELSE win_title

\* ------------------------------------------------ Term::remove_tab
remove_tab(terminal) ==
    LET i  == IndexOf(notebook, terminal)
        n  == Len(notebook)
        nb == IF i = 0 THEN notebook ELSE RemoveAt(notebook, i)
    IN  /\ notebook' = nb
        /\ page_meta' = IF i = 0 THEN page_meta ELSE MetaRemove(page_meta, terminal)
        /\ tab_label' =
              [c \in Range(nb) |->
                  IF i # 0 /\ IndexOf(notebook, c) > i
                  THEN page_label(env, RelabelNumber(IndexOf(notebook, c) - 1), None)
                  ELSE tab_label[c]]
        /\ wtitle' = [c \in Range(nb) |-> wtitle[c]]
        /\ IF i = 0
           THEN UNCHANGED << cur_page, win_title >>
           ELSE \E np \in AfterRemovePage(n, cur_page, i) :
                   /\ cur_page' = np
                   /\ win_title' = IF cur_page = i - 1 /\ np >= 0
                                   THEN switch_page(wtitle, nb[np + 1], win_title)
                                   ELSE win_title
        /\ show_tabs' = ShowTabs(Len(nb))
        /\ closes' = IF ShouldClose(Len(nb)) THEN closes + 1 ELSE closes

\* ------------------------------------------------ initial state
\* Term::new: add_actions, one add_new_tab, add_events.
Init ==
    /\ env \in Envs
    /\ notebook = << 1 >>
    /\ tab_label = [t \in {1} |-> page_label(env, NewPageNumber(0), None)]
    /\ cur_page = 0
    /\ show_tabs = ShowTabs(1)
    /\ page_meta = MetaInsert(<< >>, 1)
    /\ win_title = None
    /\ closes = 0
    /\ created = 1
    /\ wtitle = [t \in {1} |-> None]
    /\ spawn_pending = {1}
    /\ exited = {}
    /\ spawn_dir = None
    /\ call = None

\* ------------------------------------------------ handlers
\* The "new_tab" action (Alt+T): Term::add_new_tab.
add_new_tab(readable, utf8) ==
    /\ closes = 0
    /\ created < MaxTerms
    /\ LET terminal == created + 1
           n == Len(notebook)
           active == active_terminal
           override_curdir ==
               IF IsSome(active) THEN get_terminal_cwd(Unwrap(active), readable)
               ELSE None
           page_number == NewPageNumber(n)
           page == SetCurrentPage(n + 1, cur_page, Some(n))
       IN  /\ created' = terminal
           /\ spawn_dir' = WorkingDir(override_curdir, utf8)
           /\ wtitle' = [c \in Range(notebook) \cup {terminal} |->
                            IF c = terminal THEN None ELSE wtitle[c]]
           /\ spawn_pending' = spawn_pending \cup {terminal}
           /\ page_meta' = MetaInsert(page_meta, terminal)
           /\ notebook' = Append(notebook, terminal)
           /\ tab_label' = [c \in Range(notebook) \cup {terminal} |->
                               IF c = terminal
                               THEN page_label(env, page_number, None)
                               ELSE tab_label[c]]
           /\ show_tabs' = ShowTabs(n + 1)
           /\ cur_page' = page
           /\ win_title' = IF page # cur_page
                           THEN switch_page(wtitle', Append(notebook, terminal)[page + 1],
                                            win_title)
                           ELSE win_title
    /\ UNCHANGED << env, closes, exited, call >>

\* The callback given to spawn_async in Term::new_terminal.
spawn_callback(terminal, error, pid) ==
    /\ terminal \in spawn_pending
    /\ spawn_pending' = spawn_pending \ {terminal}
    /\ IF SpawnFailed(error, pid)
       THEN /\ remove_tab(terminal)
       ELSE /\ page_meta' = MetaSetPid(page_meta, terminal, pid)
            /\ UNCHANGED << notebook, tab_label, cur_page, show_tabs, win_title, closes,
                            wtitle >>
    /\ UNCHANGED << env, created, exited, spawn_dir, call >>

\* connect_child_exited handler
child_exited(terminal) ==
    /\ terminal \in 1 .. created
    /\ terminal \notin exited
    /\ exited' = exited \cup {terminal}
    /\ remove_tab(terminal)
    /\ UNCHANGED << env, created, spawn_pending, spawn_dir, call >>

\* connect_window_title_notify handler; the terminal's window_title
\* property has just become new_title.
window_title_notify(terminal, new_title) ==
    /\ terminal \in 1 .. created
    /\ IF terminal \in DOMAIN wtitle
       THEN /\ wtitle[terminal] # Some(new_title)
            /\ wtitle' = [wtitle EXCEPT ![terminal] = Some(new_title)]
       ELSE UNCHANGED wtitle
    /\ tab_label' = title_labels(terminal, new_title)
    /\ win_title' = title_window(terminal, new_title)
    /\ UNCHANGED << env, notebook, cur_page, show_tabs, page_meta, closes, created,
                    spawn_pending, exited, spawn_dir, call >>

\* "key-press-event" handler: alt is MOD1_MASK, c the digit of the key.
key_press(alt, c) ==
    /\ closes = 0
    /\ LET set_tab == KeySetTab(alt, c)
       IN  IF IsSome(set_tab)
           THEN LET new_tab == Unwrap(set_tab)
                    page == SetCurrentPage(Len(notebook), cur_page, CheckedSub(new_tab, 1))
                IN  /\ cur_page' = page
                    /\ win_title' = IF page # cur_page
                                    THEN switch_page(wtitle, notebook[page + 1], win_title)
                                    ELSE win_title
           ELSE /\ UNCHANGED << cur_page, win_title >>
    /\ UNCHANGED << env, notebook, tab_label, show_tabs, page_meta, closes, created,
                    wtitle, spawn_pending, exited, spawn_dir, call >>

\* The user clicks the tab of page p: the notebook switches page and the
\* connect_switch_page handler runs.
click_tab(p) ==
    /\ closes = 0
    /\ p \in 0 .. (Len(notebook) - 1)
    /\ p # cur_page
    /\ cur_page' = p
    /\ win_title' = switch_page(wtitle, notebook[p + 1], win_title)
    /\ UNCHANGED << env, notebook, tab_label, show_tabs, page_meta, closes, created,
                    wtitle, spawn_pending, exited, spawn_dir, call >>

Next ==
    \/ \E readable \in BOOLEAN, utf8 \in BOOLEAN : add_new_tab(readable, utf8)
    \/ \E t \in Terms : \E r \in SpawnResults(t) : spawn_callback(t, r.error, r.pid)
    \/ \E t \in Terms : child_exited(t)
    \/ \E t \in Terms, title \in Titles : window_title_notify(t, title)
    \/ \E k \in KeyEvents : key_press(k.alt, k.c)
    \/ \E p \in 0 .. (MaxTerms - 1) : click_tab(p)

Spec == Init /\ [][Next]_vars

\* ================================================================
\* Reading a label back
\* ================================================================
\* The value of a sequence of decimal digits.
RECURSIVE ParseDec(_)
ParseDec(ds) ==
    IF Len(ds) = 0 THEN 0
    ELSE Radix * ParseDec(SubSeq(ds, 1, Len(ds) - 1))
         + (CHOOSE d \in DigitValues : DigitChars[d + 1] = ds[Len(ds)])

\* Position of the first "." of a label.
FirstDot(label) == CHOOSE i \in 1 .. Len(label) :
                      label[i] = "." /\ \A j \in 1 .. (i - 1) : label[j] # "."
\* The leading number of a label, and the text after "<number>. ".
LabelNumber(label) == ParseDec(SubSeq(label, 1, FirstDot(label) - 1))
LabelTitle(label) == SubSeq(label, FirstDot(label) + 2, Len(label))

\* A step that removes a page from the notebook.
PageRemoved == Len(notebook') < Len(notebook)

\* ================================================================
\* Claims
\* ================================================================

\* C1: after every add_new_tab and remove_tab the pages of the notebook
\* occupy exactly the positions 0..n-1, one terminal per position, and the
\* terminals of the notebook are exactly the keys of page_meta.
C1_RegistryMatchesStore ==
    /\ { IndexOf(notebook, t) - 1 : t \in DOMAIN page_meta } = 0 .. (Len(notebook) - 1)
    /\ Cardinality(DOMAIN page_meta) = Len(notebook)
    /\ Range(notebook) = DOMAIN page_meta

\* Three tabs were added and the middle one removed.
C1_Witness == created = 3 /\ notebook = << 1, 3 >> /\ DOMAIN page_meta = {1, 3}

\* C2: a step that removes the only remaining page calls close() exactly
\* once, a step that removes one of several pages does not call it, and
\* the window has been closed exactly when the notebook is empty.
C2_CloseOnLastTab ==
    [][ /\ PageRemoved =>
             closes' = closes + (IF Len(notebook) = 1 THEN 1 ELSE 0)
        /\ (closes > 0) <=> (Len(notebook) = 0)
        /\ (closes' > 0) <=> (Len(notebook') = 0) ]_vars

\* Two tabs were open, both were removed, the window was closed once.
C2_Witness == created = 2 /\ Len(notebook) = 0 /\ closes = 1

\* C3: a remove_tab for a terminal that was removed before (reached from
\* the child-exited handler or a failing spawn callback) changes nothing
\* observable and does not call close() again.
C3_RemoveTwiceNoEffect ==
    [][ \A t \in Terms :
          ( /\ t <= created
            /\ t \notin Range(notebook)
            /\ \/ child_exited(t)
               \/ \E r \in SpawnResults(t) :
                     (r.error \/ r.pid < 0) /\ spawn_callback(t, r.error, r.pid) )
          => UNCHANGED << notebook, page_meta, tab_label, show_tabs, cur_page,
                          win_title, closes >> ]_vars

\* C4: when a page is removed, every remaining page whose label showed the
\* title its session had reported still shows that title.
C4_RelabelKeepsTitle ==
    [][ PageRemoved =>
          \A t \in Range(notebook') :
              (IsSome(wtitle[t]) /\ LabelTitle(tab_label[t]) = Unwrap(wtitle[t]))
              => LabelTitle(tab_label'[t]) = Unwrap(wtitle[t]) ]_vars

\* C5 (as stated): after a page is removed the remaining pages occupy
\* positions 0..n-2 and the leading number of each label is the page's
\* new 0-based position.
C5_LabelIsPosition ==
    [][ PageRemoved =>
          /\ Len(notebook') = Len(notebook) - 1
          /\ \A j \in 1 .. Len(notebook') :
                LabelNumber(tab_label'[notebook'[j]]) = j - 1 ]_vars

\* C5 (amended): after a page is removed the remaining pages occupy
\* positions 0..n-2 and the leading number of each label is the page's
\* new 0-based position plus one.
C5_LabelIsPositionPlusOne ==
    [][ PageRemoved =>
          /\ Len(notebook') = Len(notebook) - 1
          /\ Range(notebook') \subseteq Range(notebook)
          /\ \A j \in 1 .. Len(notebook') :
                LabelNumber(tab_label'[notebook'[j]]) = (j - 1) + 1 ]_vars

\* Tabs [0,1,2] with position 1 removed: the labels start with 1. and 2.
C5_Witness ==
    /\ created = 3 /\ notebook = << 1, 3 >>
    /\ LabelNumber(tab_label[1]) = 1 /\ LabelNumber(tab_label[3]) = 2

\* C6: a spawn callback that reports an error or a pid < 0 removes the
\* terminal from the notebook and from page_meta in that same step; no pid
\* is recorded while the spawn is pending, a terminal that left page_meta
\* never comes back, and no terminal is spawned a second time.
C6_SpawnFailureRemoves ==
    [][ \A t \in Terms :
          /\ (\E r \in SpawnResults(t) :
                (r.error \/ r.pid < 0) /\ spawn_callback(t, r.error, r.pid))
             => (t \notin Range(notebook') /\ t \notin DOMAIN page_meta')
          /\ (t \in spawn_pending /\ t \in DOMAIN page_meta)
             => page_meta[t].pid = None
          /\ (t <= created /\ t \notin DOMAIN page_meta) => t \notin DOMAIN page_meta'
          /\ (t <= created /\ t \notin spawn_pending) => t \notin spawn_pending' ]_vars

\* The spawn of terminal 2 failed (its callback ran, no child-exited was
\* delivered, and it is gone) while terminal 1 stays open.
C6_Witness ==
    /\ created >= 2 /\ 2 \notin spawn_pending /\ 2 \notin exited
    /\ 2 \notin Range(notebook) /\ 2 \notin DOMAIN page_meta
    /\ 1 \in Range(notebook)

\* C7: a title change of a page of the notebook puts the new title in the
\* page's label, and sets the window title to it only if the page is the
\* current one; otherwise the window title is unchanged.
C7_WindowTitleOnlyIfActive ==
    [][ \A t \in Range(notebook) : \A title \in Titles :
          window_title_notify(t, title)
          => /\ LabelTitle(tab_label'[t]) = title
             /\ win_title' = IF active_terminal = Some(t) THEN Some(title) ELSE win_title
      ]_vars

\* C8: when another terminal becomes the current page, the window title
\* becomes that terminal's title, or its default label when it has reported
\* no title.
C8_SwitchSetsWindowTitle ==
    [][ (active_terminal' # active_terminal /\ IsSome(active_terminal'))
        => LET a == Unwrap(active_terminal')
           IN  IF IsSome(wtitle'[a])
               THEN win_title' = wtitle'[a]
               ELSE win_title' \in { Some(tab_label'[a]), Some(DefaultTitle(env)) } ]_vars

\* C9: Alt+digit with digit-1 outside [0, n) leaves the current page as it is.
C9_OutOfRangeKeyNoSwitch ==
    [][ \A k \in KeyEvents :
          ( /\ k.alt /\ IsSome(k.c)
            /\ (Unwrap(k.c) - 1) \notin 0 .. (Len(notebook) - 1)
            /\ key_press(k.alt, k.c) )
          => cur_page' = cur_page ]_vars

\* C10: the tab strip is shown iff the notebook holds more than one page.
C10_ShowTabsIffSeveral == show_tabs <=> (Len(notebook) > 1)

\* The strip was shown for two tabs and is hidden again after a removal.
C10_Witness == created = 2 /\ Len(notebook) = 1 /\ ~show_tabs /\ closes = 0

\* The working directory of the process of the current page, when the page
\* has a recorded pid.
ActiveCwd ==
    IF cur_page >= 0 /\ cur_page < Len(notebook)
       /\ notebook[cur_page + 1] \in DOMAIN page_meta
       /\ IsSome(page_meta[notebook[cur_page + 1]].pid)
    THEN Some(ProcCwd(Unwrap(page_meta[notebook[cur_page + 1]].pid)))
    ELSE None

\* C11 (as stated): the working directory given to the spawn of a new tab
\* is the resolved cwd of the session that is active at the request, and
\* None when there is no active session, it has no recorded pid, or the
\* lookup fails.
C11_SpawnDirIsActiveCwd ==
    [][ \A readable \in BOOLEAN, utf8 \in BOOLEAN :
          add_new_tab(readable, utf8)
          => spawn_dir' = IF readable THEN ActiveCwd ELSE None ]_vars

\* C11 (amended): as above, and None also when the resolved path has no
\* UTF-8 form.
C11_SpawnDirIsActiveCwdUtf8 ==
    [][ \A readable \in BOOLEAN, utf8 \in BOOLEAN :
          add_new_tab(readable, utf8)
          => spawn_dir' = IF readable /\ utf8 THEN ActiveCwd ELSE None ]_vars

\* The third tab was opened while tab 1 was the current page and tab 2 had
\* a recorded pid too: it got the cwd of the process of tab 1.
C11_Witness ==
    /\ created = 3 /\ notebook = << 1, 2, 3 >>
    /\ IsSome(page_meta[2].pid)
    /\ spawn_dir = Some(ProcCwd(ChildPid(1)))

\* A step in which the spawn callback of terminal t reports a failure.
SpawnFailureOf(t) ==
    \E r \in SpawnResults(t) :
        (r.error \/ r.pid < 0) /\ spawn_callback(t, r.error, r.pid)

\* C12: when the spawn of one session fails while other sessions are open,
\* every other session stays in the notebook, in the same relative order,
\* and in page_meta with its pid unchanged, and close() is not called.
C12_FailureLeavesOthers ==
    [][ \A t \in Terms :
          (SpawnFailureOf(t) /\ Range(notebook) \ {t} # {})
          => LET Other(x) == x # t
             IN  /\ notebook' = SelectSeq(notebook, Other)
                 /\ \A o \in (DOMAIN page_meta) \ {t} :
                       o \in DOMAIN page_meta' /\ page_meta'[o] = page_meta[o]
                 /\ closes' = closes ]_vars

\* The spawn of tab 2 failed between tabs 1 and 3; tab 1 keeps its pid.
C12_Witness ==
    /\ created = 3 /\ notebook = << 1, 3 >> /\ closes = 0
    /\ 2 \notin spawn_pending /\ 2 \notin exited
    /\ page_meta[1].pid = Some(ChildPid(1)) /\ page_meta[3].pid = None

\* C13: events for a terminal that is no longer a page change nothing: a
\* late spawn success creates no Meta (and changes no page, label or
\* title), a title change of it changes no label and not the window
\* title, and the terminal never comes back to the notebook or page_meta.
C13_LateEventsNoOp ==
    [][ \A t \in Terms :
          (t <= created /\ t \notin Range(notebook))
          => /\ spawn_callback(t, FALSE, ChildPid(t))
                => UNCHANGED << page_meta, notebook, tab_label, win_title, cur_page,
                                show_tabs, closes >>
             /\ \A title \in Titles :
                   /\ title_labels(t, title) = tab_label
                   /\ title_window(t, title) = win_title
             /\ t \notin DOMAIN page_meta
             /\ t \notin Range(notebook') /\ t \notin DOMAIN page_meta' ]_vars

\* Terminal 1 is gone, its child-exited and its spawn callback were both
\* delivered, and tab 2 is open with a title of its own.
C13_Witness ==
    /\ 1 \in exited /\ 1 \notin spawn_pending
    /\ 1 \notin Range(notebook) /\ 1 \notin DOMAIN page_meta
    /\ notebook = << 2 >> /\ IsSome(wtitle[2]) /\ win_title = wtitle[2]

\* C14: the pid of a terminal in page_meta is None when it is inserted and
\* until its spawn callback reports success, becomes Some(pid) in that
\* step, and from then on stays the same as long as the terminal is in
\* page_meta.
C14_PidSetOnce ==
    [][ \A t \in Terms :
          /\ (t \in DOMAIN page_meta /\ t \in spawn_pending)
             => page_meta[t].pid = None
          /\ (t \notin DOMAIN page_meta /\ t \in DOMAIN page_meta')
             => page_meta'[t].pid = None
          /\ (t \in DOMAIN page_meta /\ spawn_callback(t, FALSE, ChildPid(t)))
             => page_meta'[t].pid = Some(ChildPid(t))
          /\ (t \in DOMAIN page_meta /\ t \in DOMAIN page_meta'
              /\ page_meta'[t].pid # page_meta[t].pid)
             => (page_meta[t].pid = None /\ spawn_callback(t, FALSE, ChildPid(t)))
          /\ (t \in DOMAIN page_meta /\ t \in DOMAIN page_meta'
              /\ IsSome(page_meta[t].pid))
             => page_meta'[t].pid = page_meta[t].pid ]_vars

\* Tabs 1 and 2 keep their pids while tab 3, just added, has none yet.
C14_Witness ==
    /\ created = 3 /\ DOMAIN page_meta = {1, 2, 3} /\ 3 \in spawn_pending
    /\ page_meta[1].pid = Some(ChildPid(1)) /\ page_meta[2].pid = Some(ChildPid(2))
    /\ page_meta[3].pid = None

\* ================================================================
\* page_label on its own
\* ================================================================
LabelInit ==
    /\ env \in LabelEnvs
    /\ notebook = << 1 >>
    /\ tab_label = [t \in {1} |-> page_label(env, NewPageNumber(0), None)]
    /\ cur_page = 0
    /\ show_tabs = ShowTabs(1)
    /\ page_meta = MetaInsert(<< >>, 1)
    /\ win_title = None
    /\ closes = 0
    /\ created = 1
    /\ wtitle = [t \in {1} |-> None]
    /\ spawn_pending = {1}
    /\ exited = {}
    /\ spawn_dir = None
    /\ call = None

\* self.page_label(page_number, title)
page_label_call(page_number, title) ==
    /\ call' = Some([page_number |-> page_number, title |-> title,
                     label |-> page_label(env, page_number, title)])
    /\ UNCHANGED << env, notebook, tab_label, cur_page, show_tabs, page_meta,
                    win_title, closes, created, wtitle, spawn_pending, exited,
                    spawn_dir >>

LabelNext ==
    \E page_number \in 0 .. MaxPageNumber :
       \E title \in {None} \cup { Some(t) : t \in LabelTitles } :
          page_label_call(page_number, title)

LabelSpec == LabelInit /\ [][LabelNext]_vars

\* Number of decimal digits of n.
RECURSIVE NumDigits(_)
NumDigits(n) == IF n < Radix THEN 1 ELSE 1 + NumDigits(n \div Radix)

\* C15: page_label(p, None) is the text "p. user@host:cwd" and
\* page_label(p, Some(t)) is "p. t", in full: the number reads back as p
\* with no leading zero, a dot and a blank follow, the rest is the whole
\* title; 2 with alice/h//tmp gives "2. alice@h:/tmp", 1 with "vim"
\* gives "1. vim".
C15_LabelText ==
    IsSome(call) =>
        LET c == Unwrap(call)
            text == IF IsSome(c.title) THEN Unwrap(c.title)
                    ELSE env.user \o <<"@">> \o env.host \o <<":">> \o env.cur_dir
            k == NumDigits(c.page_number)
        IN  /\ Len(c.label) = k + 2 + Len(text)
            /\ ParseDec(SubSeq(c.label, 1, k)) = c.page_number
            /\ (k > 1 => c.label[1] # "0")
            /\ c.label[k + 1] = "." /\ c.label[k + 2] = " "
            /\ SubSeq(c.label, k + 3, Len(c.label)) = text
            /\ (c.page_number = 2 /\ c.title = None /\ env.user = <<"a", "l", "i", "c", "e">>)
               => c.label = <<"2", ".", " ", "a", "l", "i", "c", "e", "@", "h", ":",
                              "/", "t", "m", "p">>
            /\ (c.page_number = 1 /\ c.title = Some(<<"v", "i", "m">>))
               => c.label = <<"1", ".", " ", "v", "i", "m">>

\* page_label(2, None) was called with alice / h / /tmp.
C15_Witness ==
    /\ IsSome(call) /\ env.user = <<"a", "l", "i", "c", "e">>
    /\ Unwrap(call).page_number = 2 /\ Unwrap(call).title = None
    /\ Len(Unwrap(call).label) = 15

\* C16: add_new_tab puts the new terminal at the last position (the index
\* equal to the number of pages before), leaves the pages before it where
\* they were, and makes the new terminal the current page.
C16_AppendAndActivate ==
    [][ \A readable \in BOOLEAN, utf8 \in BOOLEAN :
          add_new_tab(readable, utf8)
          => /\ Len(notebook') = Len(notebook) + 1
             /\ notebook'[Len(notebook) + 1] = created'
             /\ created' \notin Range(notebook)
             /\ \A j \in 1 .. Len(notebook) : notebook'[j] = notebook[j]
             /\ cur_page' = Len(notebook)
             /\ notebook'[cur_page' + 1] = created' ]_vars

\* Tab 1 was removed, tab 2 was the only page, then tab 3 was added: it
\* is at index 1 and current.
C16_Witness ==
    /\ created = 3 /\ notebook = << 2, 3 >> /\ cur_page = 1
    /\ 3 \in spawn_pending /\ 3 \notin exited

\* C17: in every reachable state the leading number of the label of the
\* page at 0-based position p is p + 1: the numbers are 1..n in display
\* order.
C17_LabelNumbersInOrder ==
    \A j \in 1 .. Len(notebook) : LabelNumber(tab_label[notebook[j]]) = (j - 1) + 1

\* Tab 1 was removed and tab 3, now at position 1, reported a title
\* afterwards: its label is "2. <title>".
C17_Witness ==
    /\ created = 3 /\ notebook = << 2, 3 >>
    /\ IsSome(wtitle[3]) /\ LabelTitle(tab_label[3]) = Unwrap(wtitle[3])
    /\ LabelNumber(tab_label[3]) = 2 /\ LabelNumber(tab_label[2]) = 1

\* ================================================================
\* Liveness
\* ================================================================
\* The last new-tab request a behaviour of LiveSpec can hold.
MaxLiveTerms == 2

\* The steps of Next, with new-tab requests that come to an end: none is
\* made once MaxLiveTerms terminals were built.
LiveNext ==
    \/ /\ created < MaxLiveTerms
       /\ \E readable \in BOOLEAN, utf8 \in BOOLEAN : add_new_tab(readable, utf8)
    \/ \E t \in Terms : \E r \in SpawnResults(t) : spawn_callback(t, r.error, r.pid)
    \/ \E t \in Terms : child_exited(t)
    \/ \E t \in Terms, title \in Titles : window_title_notify(t, title)
    \/ \E k \in KeyEvents : key_press(k.alt, k.c)
    \/ \E p \in 0 .. (MaxTerms - 1) : click_tab(p)

\* The main loop eventually dispatches a pending event: as long as some
\* spawn callback has not run or some child-exited signal has not been
\* delivered, one of them eventually is.  Every delivery uses up one of
\* the at most two events of a terminal, so each of them is delivered in
\* the end.
Dispatch ==
    \E t \in Terms :
        \/ \E r \in SpawnResults(t) : spawn_callback(t, r.error, r.pid)
        \/ child_exited(t)

Fairness == WF_vars(Dispatch)

LiveSpec == Init /\ [][LiveNext]_vars /\ Fairness

\* C18: if every spawn callback eventually runs and every child eventually
\* exits (or fails to spawn), and new-tab requests come to an end, the
\* notebook eventually becomes empty and the window is closed, for good.
C18_EventuallyClosed ==
    <>[](Len(notebook) = 0 /\ DOMAIN page_meta = {} /\ closes > 0)

\* Every tab that was requested was opened and all are gone: each spawn
\* callback ran, each child exited, and the window is closed.
C18_Witness ==
    /\ created = MaxLiveTerms /\ Len(notebook) = 0 /\ DOMAIN page_meta = {} /\ closes > 0
    /\ exited = 1 .. MaxLiveTerms /\ spawn_pending = {}

====
